---- MODULE Spec2Model ----
(***************************************************************************)
(* netwatch (src/main.go): probe producers hand samples to the render      *)
(* loop over unbuffered channels; the render loop stores them in a ring    *)
(* per panel and plots every ring once per tick (plotRing).                *)
(*                                                                         *)
(* float64 values are modelled in fixed point, Unit steps per 1.0.  The    *)
(* one float64 that is no number, NaN, is a reserved code that every       *)
(* comparison treats as IEEE-754 does (all ordered comparisons false).     *)
(* Durations are abstracted: a ticker fires at any moment and a goroutine   *)
(* runs at any speed, so the periods of the tickers (pingInterval, and      *)
(* five times that for "lagsine") do not order the steps of the model.      *)
(***************************************************************************)
EXTENDS Integers, Sequences, FiniteSets, TLC

VARIABLES
    boot,         \* startup: stage, args, parsePanels' position, error, channels, producers
    windowWidth,  \* global windowWidth (main.go:42)
    panelWidth,   \* global panelWidth (main.go:47)
    panels,       \* []*panel: typ, ring (slots) and cur (the slot panel.ring points at)
    prb,          \* per panel, its producer goroutine: pc, i, val (the sample it offers)
    tickc,        \* per ticker, whether its channel (capacity 1) holds a tick
    tpc,          \* position of the render-loop goroutine
    idx,          \* the render loop's panel index (1-based)
    color,        \* the render loop's local "color"
    frame,        \* what has been drawn on the surface since the last Clear
    shown,        \* whether the surface has been presented since the last Clear
    exited,       \* the process has terminated
    exitStatus,   \* its exit status
    exitCause,    \* what terminated it
    emitted,      \* history: per panel, the samples its producer has offered
    collected,    \* history: per panel, the samples received by the render loop
    took,         \* history: per panel, samples received in the current tick
    ticks         \* history: ticks completed (saturating)

vars == <<boot, windowWidth, panelWidth, panels, prb, tickc, tpc, idx, color,
          frame, shown, exited, exitStatus, exitCause, emitted, collected, took, ticks>>

----------------------------------------------------------------------------
(* Program constants *)

windowMargin == 5
panelHeight == 45
targetSize == 90
Unit == 1000
NaN == -999999
MaxInt32 == 2147483647
MinInt32 == (-MaxInt32) - 1
minvInit == 10000 * Unit

fg == "fg"
bg == "bg"
errColor == "err"
green == "00FF00"
plotColors == <<green, "0000FF", "FF7F00">>

(* Bounds of the model *)

\* a producer stops after offering (ring capacity + MaxWrap) samples, and
\* the history variable ticks saturates one above that
MaxWrap == 2
\* window widths and panel lists at startup: rings of 2 slots; for scenario A
\* a ring of 10 slots and one "sine" panel
WindowWidths == {14}
Configs == {<<"sine", "lagsine">>, <<"multi">>}
FairConfigs == {<<"sine", "lagsine">>}
ScenarioAWidths == {22}
ScenarioAConfigs == {<<"sine">>}
\* the draws of rand.Float64() * 2
RandVals == {0, 1500}
\* the plotting specification: a ring of 3 slots, samples of 1 or 2 series
\* whose values are NaN, 0.0 and 1.0 .. MaxVal
MaxVal == 2
PlotWidths == {15}
PlotConfigs == {<<"probe">>}
SeriesCounts == {1, 2}

----------------------------------------------------------------------------
(* float64 *)

IsNaN(v) == v = NaN
FGt(a, b) == ~IsNaN(a) /\ ~IsNaN(b) /\ a > b
FLt(a, b) == ~IsNaN(a) /\ ~IsNaN(b) /\ a < b
FAdd(a, b) == IF IsNaN(a) \/ IsNaN(b) THEN NaN ELSE a + b

Trunc(n, d) == IF n >= 0 THEN n \div d ELSE -((-n) \div d)
Dec32(x) == IF x = MinInt32 THEN MaxInt32 ELSE x - 1
\* what int32(f) may yield for a float64 f that int32 cannot represent
\* (NaN, +-Inf): 0x80000000 on amd64, 0 or a saturated value on arm64
IndefInt32 == {MinInt32, 0}

Min2(a, b) == IF a < b THEN a ELSE b
Max2(a, b) == IF a > b THEN a ELSE b

\* math.Sin(i) + 1 and math.Cos(i) + 1 for i = 0.1 * k, rounded to 1/Unit
SinTable == <<1000, 1100, 1199, 1296, 1389, 1479, 1565, 1644, 1717, 1783,
              1841, 1891, 1932, 1964, 1985, 1997>>
CosTable == <<2000, 1995, 1980, 1955, 1921, 1878, 1825, 1765, 1697, 1622,
              1540, 1454, 1362, 1267, 1170, 1071>>
SinPlus1(k) == SinTable[k + 1]
CosPlus1(k) == CosTable[k + 1]

----------------------------------------------------------------------------
(* container/ring *)

Nil == <<>>

RingNew(n) == [k \in 1..n |-> Nil]
RingNext(ring, cur) == (cur % Len(ring)) + 1
\* a traversal that starts one slot late
RingDoFromNext(ring, cur) == [k \in 1..Len(ring) |-> ring[((cur - 1 + k) % Len(ring)) + 1]]
\* r.Do(f): the slots in the order f is called on them, starting at r
RingDo(ring, cur) == [k \in 1..Len(ring) |-> ring[((cur - 1 + (k - 1)) % Len(ring)) + 1]]

----------------------------------------------------------------------------
(* plotRing.  The loops are folds over the slots and over the values of a
   slot; each step's state is bound once, as the one element of a set, before
   the fold goes on (an operator argument is evaluated anew at every use). *)

\* a statistics pass that does not test v > 0 before it accumulates
StatsValueAll(v, st) ==
    [st EXCEPT !.lst = v,
               !.maxv = IF FGt(v, st.maxv) THEN v ELSE st.maxv,
               !.minv = IF FLt(v, st.minv) THEN v ELSE st.minv,
               !.tot = FAdd(st.tot, v),
               !.i = st.i + 1]
\* the statistics pass, one value (main.go:137-147)
StatsValue(v, st) ==
    [st EXCEPT !.lst = v,
               !.maxv = IF FGt(v, st.maxv) THEN v ELSE st.maxv,
               !.minv = IF FLt(v, st.minv) THEN v ELSE st.minv,
               !.tot = IF FGt(v, 0) THEN FAdd(st.tot, v) ELSE st.tot,
               !.i = IF FGt(v, 0) THEN st.i + 1 ELSE st.i]

RECURSIVE StatsValues(_, _)
StatsValues(vs, st) ==
    IF vs = <<>> THEN st
    ELSE CHOOSE r \in {StatsValues(Tail(vs), s) : s \in {StatsValue(Head(vs), st)}} : TRUE

\* the statistics pass, one slot: data, _ = x.([]float64); for _, v := range data
RECURSIVE StatsPass(_, _)
StatsPass(slots, st) ==
    IF slots = <<>> THEN st
    ELSE CHOOSE r \in {StatsPass(Tail(slots), s) :
                       s \in {StatsValues(Head(slots), [st EXCEPT !.data = Head(slots)])}} : TRUE

\* a height on a fixed scale of 0 to 2.0
vhFixedScale(v, maxv, u) == Dec32(Trunc(v * (panelHeight - 2), 2 * Unit))
\* vh: int32((v/maxv)*float64(panelHeight-2)) - 1.  u.nan and u.ninf are what
\* the build's int32() yields for NaN and for -Inf.
vh(v, maxv, u) ==
    IF IsNaN(v) THEN Dec32(u.nan)
    ELSE IF maxv = 0 THEN (IF v = 0 THEN Dec32(u.nan) ELSE Dec32(u.ninf))
    ELSE Dec32(Trunc(v * (panelHeight - 2), maxv))

\* the drawing pass, one value at series index j (0-based) of the column
DrawValue(v, j, st, maxv, base, u) ==
    LET h == IF IsNaN(v) THEN panelHeight - 1
             ELSE IF FGt(v, 0) THEN vh(v, maxv, u)
             ELSE 2
        c == IF IsNaN(v) THEN errColor
             ELSE IF FGt(v, 0)
                  THEN (IF Len(plotColors) > j THEN plotColors[j + 1] ELSE st.color)
             ELSE green
        joined == j > 0 /\ Len(st.prev) > j
        y1 == IF joined
              THEN base - Min2(vh(v, maxv, u), vh(st.prev[j + 1], maxv, u))
              ELSE base - h
        y2 == IF joined
              THEN base - Max2(vh(v, maxv, u), vh(st.prev[j + 1], maxv, u))
              ELSE base
    IN  [st EXCEPT !.color = c,
                   !.lines = Append(@, [x |-> windowMargin + st.i, y1 |-> y1, y2 |-> y2,
                                        color |-> c, j |-> j])]

RECURSIVE DrawValues(_, _, _, _, _, _)
DrawValues(vs, j, st, maxv, base, u) ==
    IF vs = <<>> THEN st
    ELSE CHOOSE r \in {DrawValues(Tail(vs), j + 1, s, maxv, base, u) :
                       s \in {DrawValue(Head(vs), j, st, maxv, base, u)}} : TRUE

\* the drawing pass, one slot: prev = data; data, _ = x.([]float64); ...; i++
RECURSIVE DrawPass(_, _, _, _, _)
DrawPass(slots, st, maxv, base, u) ==
    IF slots = <<>> THEN st
    ELSE CHOOSE r \in {DrawPass(Tail(slots), [s EXCEPT !.i = @ + 1], maxv, base, u) :
                       s \in {DrawValues(Head(slots), 0,
                                         [st EXCEPT !.prev = st.data, !.data = Head(slots)],
                                         maxv, base, u)}} : TRUE

\* where the panel's baseline is: vs + windowMargin + panelHeight + 13
Baseline(tgtnum) == ((tgtnum * targetSize) + 1) + windowMargin + panelHeight + 13

\* plotRing(r, host, tgtnum, renderer, font, fg): what it draws
plotRing(ring, cur, tgtnum, fgc, u) ==
    CHOOSE f \in
        {[border |-> fgc, lst |-> st.lst, maxv |-> st.maxv, minv |-> st.minv,
          avg |-> [tot |-> st.tot, cnt |-> st.i],
          lines |-> DrawPass(RingDo(ring, cur),
                             [prev |-> Nil, data |-> st.data, i |-> 0, color |-> fgc,
                              lines |-> <<>>],
                             st.maxv, Baseline(tgtnum), u).lines] :
         st \in {StatsPass(RingDo(ring, cur),
                           [minv |-> minvInit, maxv |-> 0, lst |-> 0, tot |-> 0,
                            i |-> 0, data |-> Nil])}} : TRUE

----------------------------------------------------------------------------
(* Arguments.  An argument is a sequence of pieces, each a word without ':'
   or the separator ":"; a token is the sequence of the words between two
   separators ("" is the empty sequence). *)

Sep == ":"

\* strings.Split(arg, ":")
RECURSIVE Split(_)
Split(arg) ==
    IF arg = <<>> THEN << <<>> >>
    ELSE LET rest == Split(Tail(arg))
         IN  IF Head(arg) = Sep THEN << <<>> >> \o rest
             ELSE << <<Head(arg)>> \o Head(rest) >> \o Tail(rest)

\* the keys of the probes map
ProbeTypes == {<<"sine">>, <<"lagsine">>, <<"multi">>}
\* a lookup that finds every key
RegisteredAny(tok) == TRUE
\* p, ok := probes[tokens[0]]
Registered(tok) == tok \in ProbeTypes
\* err := p(tokens[1], c): the three constructors start their goroutine and return nil
ProbeErr(tok, target) == FALSE

\* a channel made once, before the loop
MakeChanOnce(n) == 1
\* c := make(chan []float64): the n-th channel made
MakeChan(n) == n

NoErr == [kind |-> "none", what |-> <<>>]

----------------------------------------------------------------------------
(* State after startup: parsePanels has built the panels and started one
   producer per panel, main has started the render loop and waits for events *)

NP == Len(panels)
Panels == 1..NP
Cap(p) == Len(panels[p].ring)

\* ticker 0 is the render loop's, ticker p > 0 is the producer's of panel p
Tickers == 0..NP

\* &panel{typ, target, channel, ring: ring.New(int(panelWidth - 2))}
\* a ring as wide as the window less two
NewPanelWindowWide(typ, pw) ==
    [typ |-> typ, ring |-> RingNew(pw + (windowMargin * 2) - 2), cur |-> 1]
NewPanel(typ, pw) == [typ |-> typ, ring |-> RingNew(pw - 2), cur |-> 1]

\* a probe that adds 0.1 to i before it computes its sample
SampleAfterInc(typ, k, r) ==
    IF typ = "multi" THEN <<SinPlus1(k + 1), CosPlus1(k + 1), r>> ELSE <<SinPlus1(k + 1)>>
\* the sample a probe computes from its i (k increments of 0.1) and, for
\* "multi", the draw r of rand.Float64() * 2
Sample(typ, k, r) ==
    IF typ = "multi" THEN <<SinPlus1(k), CosPlus1(k), r>> ELSE <<SinPlus1(k)>>

EmitLimit(p) == Cap(p) + MaxWrap
TickCap == Cap(1) + MaxWrap + 1

\* what startup leaves behind for the panel list typs in a window of width w
Booted(typs, w) ==
    [stage |-> "running",
     args |-> [k \in 1..Len(typs) |-> <<typs[k], Sep, "localhost">>],
     k |-> Len(typs) + 1,
     err |-> NoErr,
     chans |-> [k \in 1..Len(typs) |-> MakeChan(k)],
     started |-> [k \in 1..Len(typs) |-> [typ |-> typs[k], c |-> MakeChan(k)]],
     w0 |-> w,
     fs |-> FALSE]

InitWith(widths, configs) ==
    /\ windowWidth \in widths
    /\ panelWidth = windowWidth - (windowMargin * 2)
    /\ \E typs \in configs :
          /\ panels = [k \in 1..Len(typs) |-> NewPanel(typs[k], panelWidth)]
          /\ boot = Booted(typs, windowWidth)
    /\ prb = [p \in Panels |-> [pc |-> "tick", i |-> 0, val |-> Nil]]
    /\ tickc = [t \in Tickers |-> FALSE]
    /\ tpc = "tick"
    /\ idx = 1
    /\ color = fg
    /\ frame = <<>>
    /\ shown = FALSE
    /\ exited = FALSE
    /\ exitStatus = 0
    /\ exitCause = "none"
    /\ emitted = [p \in Panels |-> <<>>]
    /\ collected = [p \in Panels |-> <<>>]
    /\ took = [p \in Panels |-> 0]
    /\ ticks = 0

Init == InitWith(WindowWidths, Configs)

----------------------------------------------------------------------------
(* time.Tick *)

\* ticker t fires: it puts a tick in its channel, which holds one tick, and
\* drops the tick when the channel is full
TickerFire(t) ==
    /\ ~exited
    /\ tickc' = [tickc EXCEPT ![t] = TRUE]
    /\ UNCHANGED <<boot, windowWidth, panelWidth, panels, prb, tpc, idx, color, frame, shown,
                   exited, exitStatus, exitCause, emitted, collected, took, ticks>>

----------------------------------------------------------------------------
(* Probe producers *)

\* for range time.Tick(...) { c <- []float64{...}: the producer takes a tick,
\* computes its sample and blocks offering it on the unbuffered channel
ProbeTick(p) ==
    /\ ~exited
    /\ prb[p].pc = "tick"
    /\ tickc[p]
    /\ prb[p].i < EmitLimit(p)
    /\ \E r \in RandVals :
          LET v == Sample(panels[p].typ, prb[p].i, r)
          IN  /\ prb' = [prb EXCEPT ![p].pc = "send", ![p].val = v]
              /\ emitted' = [emitted EXCEPT ![p] = Append(@, v)]
    /\ tickc' = [tickc EXCEPT ![p] = FALSE]
    /\ UNCHANGED <<boot, windowWidth, panelWidth, panels, tpc, idx, color, frame, shown,
                   exited, exitStatus, exitCause, collected, took, ticks>>

\* i += 0.1, after the send has completed
ProbeInc(p) ==
    /\ ~exited
    /\ prb[p].pc = "inc"
    /\ prb' = [prb EXCEPT ![p].pc = "tick", ![p].i = @ + 1]
    /\ UNCHANGED <<boot, windowWidth, panelWidth, panels, tickc, tpc, idx, color, frame,
                   shown, exited, exitStatus, exitCause, emitted, collected, took, ticks>>

----------------------------------------------------------------------------
(* Render loop *)

\* a sender is blocked on panel p's channel
Ready(p) == prb[p].pc = "send"

\* a select without its default case blocks until a sender is there
SelectNoDefault(p) == IF Ready(p) THEN "recv" ELSE "block"
\* select { case v := <-panel.channel: ...; default: ... }: the case taken
\* a select that stays with the default case once a tick was stale
SelectSticky(p) == IF Ready(p) /\ color = fg THEN "recv" ELSE "default"
SelectCase(p) == IF Ready(p) THEN "recv" ELSE "default"

\* a producer whose send does not wait for the receiver
SendNotDone(pr) == pr
\* the producer once its send c <- v has been received: it goes on to i += 0.1
SendDone(pr) == [pr EXCEPT !.pc = "inc", !.val = Nil]

\* a store that moves the ring two slots on
StoreTwoOn(pn, v) ==
    [pn EXCEPT !.ring[pn.cur] = v, !.cur = RingNext(pn.ring, RingNext(pn.ring, pn.cur))]
\* panel.ring.Value = v; panel.ring = panel.ring.Next()
Store(pn, v) == [pn EXCEPT !.ring[pn.cur] = v, !.cur = RingNext(pn.ring, pn.cur)]

\* for range time.Tick(pingInterval) { SetDrawColor(bg); renderer.Clear()
SchedTick ==
    /\ ~exited
    /\ tpc = "tick"
    /\ tickc[0]
    /\ tickc' = [tickc EXCEPT ![0] = FALSE]
    /\ frame' = <<>>
    /\ shown' = FALSE
    /\ tpc' = "collect"
    /\ idx' = 1
    /\ took' = [p \in Panels |-> 0]
    /\ UNCHANGED <<boot, windowWidth, panelWidth, panels, prb, color,
                   exited, exitStatus, exitCause, emitted, collected, ticks>>

\* a collection that stores the sample received for one panel in every ring
CollectIntoAll ==
    /\ ~exited
    /\ tpc = "collect"
    /\ IF SelectCase(idx) = "recv"
       THEN /\ panels' = [p \in Panels |-> Store(panels[p], prb[idx].val)]
            /\ prb' = [prb EXCEPT ![idx] = SendDone(@)]
            /\ collected' = [collected EXCEPT ![idx] = Append(@, prb[idx].val)]
            /\ took' = [took EXCEPT ![idx] = @ + 1]
            /\ color' = fg
       ELSE /\ color' = errColor
            /\ UNCHANGED <<panels, prb, collected, took>>
    /\ tpc' = "plot"
    /\ UNCHANGED <<boot, windowWidth, panelWidth, tickc, idx, frame, shown,
                   exited, exitStatus, exitCause, emitted, ticks>>

\* the select and its two cases
Collect ==
    /\ ~exited
    /\ tpc = "collect"
    /\ SelectCase(idx) # "block"
    /\ IF SelectCase(idx) = "recv"
       THEN /\ panels' = [panels EXCEPT ![idx] = Store(@, prb[idx].val)]
            /\ prb' = [prb EXCEPT ![idx] = SendDone(@)]
            /\ collected' = [collected EXCEPT ![idx] = Append(@, prb[idx].val)]
            /\ took' = [took EXCEPT ![idx] = @ + 1]
            /\ color' = fg
       ELSE /\ color' = errColor
            /\ UNCHANGED <<panels, prb, collected, took>>
    /\ tpc' = "plot"
    /\ UNCHANGED <<boot, windowWidth, panelWidth, tickc, idx, frame, shown,
                   exited, exitStatus, exitCause, emitted, ticks>>

\* a loop that presents the frame after the first panel
AfterPlotFirstOnly(i) == [tpc |-> "present", idx |-> i]
\* where the loop over the panels goes after panel i has been plotted
AfterPlot(i) == IF i < NP THEN [tpc |-> "collect", idx |-> i + 1]
                ELSE [tpc |-> "present", idx |-> i]

\* plotRing(panel.ring, panel.target, int32(i), renderer, font, color)
Render ==
    /\ ~exited
    /\ tpc = "plot"
    /\ \E u \in [{"nan", "ninf"} -> IndefInt32] :
          frame' = Append(frame, plotRing(panels[idx].ring, panels[idx].cur, idx - 1, color, u))
    /\ tpc' = AfterPlot(idx).tpc
    /\ idx' = AfterPlot(idx).idx
    /\ UNCHANGED <<boot, windowWidth, panelWidth, panels, prb, tickc, color, shown,
                   exited, exitStatus, exitCause, emitted, collected, took, ticks>>

\* renderer.Present()
Present ==
    /\ ~exited
    /\ tpc = "present"
    /\ shown' = TRUE
    /\ tpc' = "tick"
    /\ ticks' = IF ticks < TickCap THEN ticks + 1 ELSE ticks
    /\ UNCHANGED <<boot, windowWidth, panelWidth, panels, prb, tickc, idx, color, frame,
                   exited, exitStatus, exitCause, emitted, collected, took>>

----------------------------------------------------------------------------
(* Event loop: for event := sdl.WaitEvent(); event != nil; event = sdl.WaitEvent() *)

\* case *sdl.QuitEvent: os.Exit(0)
EventQuit ==
    /\ ~exited
    /\ exited' = TRUE
    /\ exitStatus' = 0
    /\ exitCause' = "quit"
    /\ UNCHANGED <<boot, windowWidth, panelWidth, panels, prb, tickc, tpc, idx, color,
                   frame, shown, emitted, collected, took, ticks>>

\* a switch that leaves on any event
EventOtherExits ==
    /\ ~exited
    /\ exited' = TRUE
    /\ exitStatus' = 0
    /\ exitCause' = "other"
    /\ UNCHANGED <<boot, windowWidth, panelWidth, panels, prb, tickc, tpc, idx, color,
                   frame, shown, emitted, collected, took, ticks>>

\* any other event: the switch has no case for it
EventOther ==
    /\ ~exited
    /\ UNCHANGED vars

\* WaitEvent returns nil: the loop ends, main returns and the process ends
EventNil ==
    /\ ~exited
    /\ exited' = TRUE
    /\ exitStatus' = 0
    /\ exitCause' = "return"
    /\ UNCHANGED <<boot, windowWidth, panelWidth, panels, prb, tickc, tpc, idx, color,
                   frame, shown, emitted, collected, took, ticks>>

----------------------------------------------------------------------------

Next ==
    \/ \E t \in Tickers : TickerFire(t)
    \/ \E p \in Panels : ProbeTick(p)
    \/ \E p \in Panels : ProbeInc(p)
    \/ SchedTick
    \/ Collect
    \/ Render
    \/ Present
    \/ EventQuit
    \/ EventOther
    \/ EventNil

Spec == Init /\ [][Next]_vars

\* scenario A: one "sine" panel, a ring of 10 slots
InitA == InitWith(ScenarioAWidths, ScenarioAConfigs)
SpecA == InitA /\ [][Next]_vars

\* plotRing on the rings that collecting arbitrary samples leads to
PlotVals == {NaN, 0} \cup {k * Unit : k \in 1..MaxVal}
PlotSamples == UNION {[1..n -> PlotVals] : n \in SeriesCounts}

InitPlot == InitWith(PlotWidths, PlotConfigs)

\* a tick that clears the surface and receives sample v for the panel
\* (the histories are not kept in this specification)
CollectAny(v) ==
    /\ panels' = [panels EXCEPT ![1] = Store(@, v)]
    /\ frame' = <<>>
    /\ UNCHANGED <<boot, windowWidth, panelWidth, prb, tickc, tpc, idx, color, shown,
                   exited, exitStatus, exitCause, emitted, collected, took, ticks>>

\* plotRing(panel.ring, ...) on the panel
PlotAny ==
    /\ frame = <<>>
    /\ \E u \in [{"nan", "ninf"} -> IndefInt32] :
          frame' = <<plotRing(panels[1].ring, panels[1].cur, 0, color, u)>>
    /\ UNCHANGED <<boot, windowWidth, panelWidth, panels, prb, tickc, tpc, idx, color, shown,
                   exited, exitStatus, exitCause, emitted, collected, took, ticks>>

NextPlot ==
    \/ \E v \in PlotSamples : CollectAny(v)
    \/ PlotAny

SpecPlot == InitPlot /\ [][NextPlot]_vars

\* plotRing on the rings of one-series samples of very different sizes
GainVals == {1, 50, Unit, 2 * Unit}
GainSamples == [1..1 -> GainVals]
InitGain == InitWith(PlotWidths, PlotConfigs)
NextGain ==
    \/ \E v \in GainSamples : CollectAny(v)
    \/ PlotAny
SpecGain == InitGain /\ [][NextGain]_vars

\* the render loop goroutine is scheduled: weak fairness of its steps; the
\* producers, the tickers and the events have none
FairInit == InitWith(WindowWidths, FairConfigs)
FairSpec == FairInit /\ [][Next]_vars /\ WF_vars(Collect) /\ WF_vars(Render) /\ WF_vars(Present)

----------------------------------------------------------------------------
(* Startup: main from flag.Args() to the start of the render loop *)

\* int(^byte(0)) in len(args) > int(^byte(0))
MaxTargets == 255

ArgCounts == {0, 1, 2}
StartWidths == {13}
ScreenWidths == {15}
ArgPool == {<<"sine", Sep, "localhost">>, <<"badtoken">>,
            <<"ping", Sep, "localhost">>, <<"sine", Sep, "localhost", Sep, "x">>}
\* two types in an order, and a failure at the third argument
MixedArgs == {<< <<"lagsine", Sep>>, <<"sine", Sep, "localhost">> >>,
              << <<"sine", Sep, "localhost">>, <<"lagsine", Sep>>, <<Sep, "localhost">> >>}
\* one list longer than parsePanels accepts
LongArgs == [k \in 1..(MaxTargets + 1) |-> <<"sine", Sep, "localhost">>]
StartArgs == UNION {[1..n -> ArgPool] : n \in ArgCounts} \cup MixedArgs \cup {LongArgs}

InitStart ==
    /\ windowWidth \in StartWidths
    /\ panelWidth = windowWidth - (windowMargin * 2)
    /\ \E args \in StartArgs, fs \in BOOLEAN :
          boot = [stage |-> "args", args |-> args, k |-> 1, err |-> NoErr,
                  chans |-> <<>>, started |-> <<>>, w0 |-> windowWidth, fs |-> fs]
    /\ panels = <<>>
    /\ prb = <<>>
    /\ tickc = [t \in {0} |-> FALSE]
    /\ tpc = "tick"
    /\ idx = 1
    /\ color = fg
    /\ frame = <<>>
    /\ shown = FALSE
    /\ exited = FALSE
    /\ exitStatus = 0
    /\ exitCause = "none"
    /\ emitted = <<>>
    /\ collected = <<>>
    /\ took = <<>>
    /\ ticks = 0

\* return nil, err
ParseFail(e) ==
    /\ boot' = [boot EXCEPT !.stage = "parsed", !.err = e, !.chans = <<>>]
    /\ panels' = <<>>
    /\ UNCHANGED <<prb, tickc, emitted, collected, took>>

\* parsePanels: the two checks of len(args) and a := make([]*panel, len(args))
ParseCheck ==
    /\ ~exited
    /\ boot.stage = "args"
    /\ IF Len(boot.args) < 1
       THEN ParseFail([kind |-> "No args specified", what |-> <<>>])
       ELSE IF Len(boot.args) > MaxTargets
       THEN ParseFail([kind |-> "Too many targets specified", what |-> <<>>])
       ELSE /\ boot' = [boot EXCEPT !.stage = "parse"]
            /\ UNCHANGED <<panels, prb, tickc, emitted, collected, took>>
    /\ UNCHANGED <<windowWidth, panelWidth, tpc, idx, color, frame, shown,
                   exited, exitStatus, exitCause, ticks>>

\* parsePanels: one iteration of for i, arg := range args
ParseArg ==
    /\ ~exited
    /\ boot.stage = "parse"
    /\ boot.k <= Len(boot.args)
    /\ LET arg == boot.args[boot.k]
           tokens == Split(arg)
           c == MakeChan(boot.k)
       IN  IF Len(tokens) # 2
           THEN ParseFail([kind |-> "Could not parse panel", what |-> arg])
           ELSE IF ~Registered(tokens[1])
           THEN ParseFail([kind |-> "Unsupported panel type", what |-> tokens[1]])
           ELSE IF ProbeErr(tokens[1], tokens[2])
           THEN ParseFail([kind |-> "Error initializing", what |-> tokens[1]])
           ELSE /\ boot' = [boot EXCEPT !.k = @ + 1,
                                        !.chans = Append(@, c),
                                        !.started = Append(@, [typ |-> tokens[1][1], c |-> c])]
                /\ panels' = Append(panels, NewPanel(tokens[1][1], panelWidth))
                /\ prb' = Append(prb, [pc |-> "tick", i |-> 0, val |-> Nil])
                /\ tickc' = [t \in 0..(Len(prb) + 1) |-> FALSE]
                /\ emitted' = Append(emitted, <<>>)
                /\ collected' = Append(collected, <<>>)
                /\ took' = Append(took, 0)
    /\ UNCHANGED <<windowWidth, panelWidth, tpc, idx, color, frame, shown,
                   exited, exitStatus, exitCause, ticks>>

\* parsePanels: return a, nil
ParseReturn ==
    /\ ~exited
    /\ boot.stage = "parse"
    /\ boot.k > Len(boot.args)
    /\ boot' = [boot EXCEPT !.stage = "parsed"]
    /\ UNCHANGED <<windowWidth, panelWidth, panels, prb, tickc, tpc, idx, color, frame,
                   shown, exited, exitStatus, exitCause, emitted, collected, took, ticks>>

\* errbox: the message box, then os.Exit(1)
errbox ==
    /\ exited' = TRUE
    /\ exitStatus' = 1
    /\ exitCause' = "errbox"
    /\ UNCHANGED <<boot, windowWidth, panelWidth, panels, prb, tickc, tpc, idx, color,
                   frame, shown, emitted, collected, took, ticks>>

\* if err != nil { errbox(err.Error()) }
MainErr ==
    /\ ~exited
    /\ boot.stage = "parsed"
    /\ boot.err # NoErr
    /\ errbox

\* a colour that does not parse, or SDL, the window, the renderer or the font
\* fails to initialise
InitFail ==
    /\ ~exited
    /\ boot.stage \in {"parsed", "window"}
    /\ boot.err = NoErr
    /\ errbox

\* sdl.CreateWindow(..., windowWidth, ...), SetFullscreen when asked, and
\* windowWidth, windowHeight = window.GetSize(); panelWidth = windowWidth - (windowMargin * 2)
OpenWindow ==
    /\ ~exited
    /\ boot.stage = "parsed"
    /\ boot.err = NoErr
    /\ \E w \in (IF boot.fs THEN ScreenWidths ELSE {windowWidth}) :
          /\ windowWidth' = w
          /\ panelWidth' = w - (windowMargin * 2)
    /\ boot' = [boot EXCEPT !.stage = "window"]
    /\ UNCHANGED <<panels, prb, tickc, tpc, idx, color, frame, shown,
                   exited, exitStatus, exitCause, emitted, collected, took, ticks>>

\* go func() { for range time.Tick(pingInterval) { ... } }() and the event loop
StartLoop ==
    /\ ~exited
    /\ boot.stage = "window"
    /\ boot' = [boot EXCEPT !.stage = "running"]
    /\ UNCHANGED <<windowWidth, panelWidth, panels, prb, tickc, tpc, idx, color, frame,
                   shown, exited, exitStatus, exitCause, emitted, collected, took, ticks>>

\* the render loop, the event loop and the steps of the producers come after startup
Running ==
    /\ boot.stage = "running"
    /\ Next

NextStart ==
    \/ ParseCheck
    \/ ParseArg
    \/ ParseReturn
    \/ MainErr
    \/ InitFail
    \/ OpenWindow
    \/ StartLoop
    \/ Running

SpecStart == InitStart /\ [][NextStart]_vars

----------------------------------------------------------------------------
(* Properties *)

NonEmpty(slots) == SelectSeq(slots, LAMBDA x : x # Nil)
LastN(seq, n) == SubSeq(seq, Len(seq) - n + 1, Len(seq))
\* what a traversal of panel p's ring from its cursor visits, empty slots skipped
Visited(p) == NonEmpty(RingDo(panels[p].ring, panels[p].cur))

\* C1: a traversal of a panel's ring from the cursor visits, empty slots
\* skipped, exactly the last min(w, N) of the w samples collected, oldest
\* first; with w > N the w - N oldest are the ones lost.
C1_RingHoldsLastSamples ==
    \A p \in Panels :
        Visited(p) = LastN(collected[p], Min2(Len(collected[p]), Cap(p)))

\* a ring that has wrapped, by more than one sample
C1_Witness ==
    \E p \in Panels : Len(collected[p]) = Cap(p) + 2 /\ Len(Visited(p)) = Cap(p)

\* the fresh effect on panel p: one sample leaves the channel, goes into the
\* slot at the cursor, the cursor moves one slot on
FreshEffect(p) ==
    /\ tpc = "collect" /\ idx = p /\ Ready(p)
    /\ panels'[p].ring = [panels[p].ring EXCEPT ![panels[p].cur] = prb[p].val]
    /\ panels'[p].cur = (panels[p].cur % Cap(p)) + 1
    /\ ~Ready(p)'
    /\ collected'[p] = Append(collected[p], prb[p].val)
    /\ took[p] = 0 /\ took'[p] = 1
StaleEffect(p) ==
    /\ panels'[p] = panels[p]
    /\ collected'[p] = collected[p]
    /\ took'[p] = took[p] \/ took'[p] = 0

\* C2: every step is, for every panel, fresh (one sample taken, stored at the
\* cursor, cursor one slot on) or leaves ring and cursor alone; a collection
\* attempt is fresh when a sample is ready and stale when none is; no panel
\* gives more than one sample in a tick.
C2_CollectFreshOrStale ==
    [][ /\ \A p \in Panels : FreshEffect(p) \/ StaleEffect(p)
        /\ (tpc = "collect" /\ tpc' = "plot") =>
               /\ Ready(idx) => FreshEffect(idx)
               /\ ~Ready(idx) => StaleEffect(idx)
               /\ \A p \in Panels \ {idx} : StaleEffect(p)
        /\ \A p \in Panels : took'[p] <= 1 ]_vars

\* a tick in which the first panel was fresh and the second stale, its ring
\* keeping what it held
C2_Witness ==
    /\ NP = 2 /\ tpc = "present"
    /\ took[1] = 1 /\ took[2] = 0 /\ Len(collected[2]) >= 1

\* C4: the samples collected are the samples emitted, in emission order, none
\* twice, none skipped; at most one emitted sample awaits collection, and it
\* is the one its producer is blocked on.
C4_EmissionOrder ==
    \A p \in Panels :
        /\ Len(collected[p]) <= Len(emitted[p])
        /\ collected[p] = SubSeq(emitted[p], 1, Len(collected[p]))
        /\ Len(emitted[p]) - Len(collected[p]) <= 1
        /\ Ready(p) <=> (Len(emitted[p]) = Len(collected[p]) + 1)
        /\ Ready(p) => prb[p].val = emitted[p][Len(emitted[p])]
        /\ Len(emitted[p]) = prb[p].i + (IF prb[p].pc = "tick" THEN 0 ELSE 1)

C4_Witness ==
    \E p \in Panels : Len(collected[p]) >= 2 /\ Ready(p)

\* collection attempts made in the current tick
Attempts == IF tpc = "collect" THEN idx - 1 ELSE idx

\* C5 as claimed: no panel is drawn in a tick before every panel's collection
\* attempt of that tick has been made.
C5_AllCollectedBeforeAnyRender ==
    Len(frame) >= 1 => Attempts = NP

\* C5 as amended: a tick clears the surface, then takes the panels in index
\* order, collecting for a panel and drawing it before going to the next, and
\* presents the frame after the last panel; a panel is drawn only after its
\* own collection attempt of that tick.
C5_CollectThenRenderPerPanel ==
    /\ idx \in Panels
    /\ Len(frame) <= Attempts
    /\ tpc = "collect" => Len(frame) = idx - 1 /\ ~shown
    /\ tpc = "plot" => Len(frame) = idx - 1 /\ ~shown
    /\ tpc = "present" => Len(frame) = NP /\ ~shown
    /\ shown => tpc = "tick" /\ Len(frame) = NP
    /\ \A p \in Panels : took[p] > 0 => p <= Attempts

\* the second panel's collection attempt is about to be made, the first panel drawn
C5_Witness ==
    NP = 2 /\ tpc = "collect" /\ idx = 2 /\ Len(frame) = 1 /\ ticks >= 1

\* a tick is in progress: the surface has been cleared and not yet presented
TickStarted == tpc # "tick"

\* what plotRing draws for a ring without samples on a stale tick: the stale
\* border, no column, and an average of 0/0
DrawnStaleAndEmpty(f) ==
    /\ f.border = errColor
    /\ f.lines = <<>>
    /\ f.avg = [tot |-> 0, cnt |-> 0]
    /\ f.maxv = 0 /\ f.lst = 0

NeverDelivered(p) ==
    emitted[p] = <<>> =>
        /\ \A k \in 1..Cap(p) : panels[p].ring[k] = Nil
        /\ p <= Len(frame) => DrawnStaleAndEmpty(frame[p])

\* C3: no probe blocks the tick driver: for as long as the process runs, every
\* tick that starts reaches the present-frame step, whatever the producers
\* do; a panel whose producer never delivers keeps an empty ring and is drawn
\* stale, with no column and an average of 0/0, on every tick.
C3_TickNeverBlocked ==
    /\ TickStarted ~> (shown \/ exited)
    /\ [](\A p \in Panels : NeverDelivered(p))

\* a frame presented, not the first, with a panel whose producer is silent
C3_Witness ==
    /\ shown /\ ticks >= 2
    /\ \E p \in Panels : emitted[p] = <<>> /\ DrawnStaleAndEmpty(frame[p])

\* the samples a..b (counted from 1) of a "sine" producer
SineSamples(a, b) == [k \in 1..(b - a + 1) |-> <<SinPlus1(a + k - 2)>>]

\* C6 as claimed: one "sine" panel, 10 slots: after 12 ticks the ring holds
\* the producer's samples 3..12 in order.
C6_TwelveTicksTwelveSamples ==
    ticks = 12 => Visited(1) = SineSamples(3, 12)

\* C6 as amended: a tick collects one sample when the producer is offering
\* one and none otherwise, so after t ticks w <= t samples have been
\* collected; they are the producer's samples 1..w and the ring holds the
\* last min(w, 10) of them in order: samples 3..12 once 12 are collected.
C6_RingAfterCollections ==
    LET w == Len(collected[1])
    IN  /\ w <= ticks + took[1]
        /\ collected[1] = SineSamples(1, w)
        /\ Visited(1) = SineSamples(Max2(1, w - Cap(1) + 1), w)
        /\ w = 12 => Visited(1) = SineSamples(3, 12)

\* twelve ticks, each of which collected a sample
C6_Witness ==
    ticks = 12 /\ Len(collected[1]) = 12 /\ Cap(1) = 10 /\ tpc = "tick"

\* the values plotRing meets in panel p's ring, in the order it meets them
RECURSIVE Flat(_)
Flat(slots) == IF slots = <<>> THEN <<>> ELSE Head(slots) \o Flat(Tail(slots))
RingValues(p) == Flat(RingDo(panels[p].ring, panels[p].cur))
Positive(vals) == SelectSeq(vals, LAMBDA v : ~IsNaN(v) /\ v > 0)
RECURSIVE SumOf(_)
SumOf(vals) == IF vals = <<>> THEN 0 ELSE Head(vals) + SumOf(Tail(vals))
Range(vals) == {vals[k] : k \in 1..Len(vals)}
MaxOf(vals) == CHOOSE m \in Range(vals) : \A v \in Range(vals) : v <= m
MinOf(vals) == CHOOSE m \in Range(vals) : \A v \in Range(vals) : m <= v

\* C7: the max plotRing computes is the largest strictly positive value in the
\* ring, its average is the sum of the strictly positive values over their
\* number; NaN and values <= 0 count for neither; without a strictly positive
\* value the average is 0/0.
C7_MaxAndAverage ==
    frame # <<>> =>
        LET pos == Positive(RingValues(1))
        IN  /\ pos # <<>> => frame[1].maxv = MaxOf(pos)
            /\ frame[1].avg = [tot |-> SumOf(pos), cnt |-> Len(pos)]
            /\ pos = <<>> => frame[1].avg = [tot |-> 0, cnt |-> 0]

\* a ring with an empty slot, a NaN, a value <= 0 and two different positive values
C7_Witness ==
    /\ frame # <<>>
    /\ \E k \in 1..Cap(1) : panels[1].ring[k] = Nil
    /\ {NaN, 0, Unit, 2 * Unit} \subseteq Range(RingValues(1))

\* C8 as claimed: the min plotRing computes is the least strictly positive
\* value in the ring.
C8_MinOfPositive ==
    (frame # <<>> /\ Positive(RingValues(1)) # <<>>) =>
        frame[1].minv = MinOf(Positive(RingValues(1)))

\* C9 as claimed: the "last" value plotRing reports for a panel with at
\* least one sample collected is the first-series value of the sample written
\* last.
C9_LastIsFirstSeries ==
    \A p \in Panels :
        (p <= Len(frame) /\ collected[p] # <<>>) =>
            frame[p].lst = collected[p][Len(collected[p])][1]

\* a column drawn from the baseline to the full height in the error color
FullHeightError(l, base) ==
    /\ l.color = errColor
    /\ l.y2 = base
    /\ l.y1 = base - (panelHeight - 1)

\* C10 as claimed: every NaN in the ring, whatever its series index, the other
\* values of its sample and the previous column, is drawn as a full-height
\* column in the error color.
C10_NaNFullHeight ==
    frame # <<>> =>
        /\ Len(frame[1].lines) = Len(RingValues(1))
        /\ \A k \in 1..Len(RingValues(1)) :
               IsNaN(RingValues(1)[k]) => FullHeightError(frame[1].lines[k], Baseline(0))

----------------------------------------------------------------------------
(* Startup *)

\* parsePanels has returned
Returned == boot.stage \in {"parsed", "window", "running"}
\* the argument does not split into a type and a target, or its type is not registered
Offending(arg) == Len(Split(arg)) # 2 \/ Split(arg)[1] \notin ProbeTypes
WrongCount(args) == Len(args) = 0 \/ Len(args) > MaxTargets
BadList(args) == WrongCount(args) \/ \E k \in 1..Len(args) : Offending(args[k])
FirstBad(args) ==
    CHOOSE k \in 1..Len(args) : Offending(args[k]) /\ \A j \in 1..(k - 1) : ~Offending(args[j])
TypeOf(arg) == Split(arg)[1][1]
\* the error names the first offending token, or its type
NamesOffender(err, args) ==
    IF WrongCount(args) THEN err.kind \in {"No args specified", "Too many targets specified"}
    ELSE LET arg == args[FirstBad(args)]
         IN  IF Len(Split(arg)) # 2
             THEN err = [kind |-> "Could not parse panel", what |-> arg]
             ELSE err.kind \in {"Unsupported panel type", "Error initializing"}
                  /\ err.what = Split(arg)[1]
NothingRendered ==
    /\ boot.stage # "running"
    /\ tpc = "tick" /\ ~tickc[0] /\ frame = <<>> /\ ~shown /\ ticks = 0

\* C11: startup is all-or-nothing.  When the target list is empty, has more
\* than 255 entries, or holds a token that does not split into exactly two
\* parts on ':' or that names an unregistered probe type, parsePanels returns
\* an error naming the offending token or type and no panels, the only step
\* left to the process is the exit with a non-zero status, and the tick
\* driver is never started and no frame is rendered; otherwise parsePanels
\* returns one panel per argument, in argument order.
C11_StartupAllOrNothing ==
    /\ [](LET args == boot.args
          IN  /\ BadList(args) => NothingRendered /\ (exited => exitStatus # 0)
              /\ (Returned /\ BadList(args)) =>
                    /\ boot.err # NoErr
                    /\ panels = <<>>
                    /\ NamesOffender(boot.err, args)
              /\ (Returned /\ ~BadList(args)) =>
                    /\ boot.err = NoErr
                    /\ Len(panels) = Len(args)
                    /\ \A k \in 1..Len(args) : panels[k].typ = TypeOf(args[k]))
    /\ [][boot.err # NoErr => exited' /\ exitStatus' = 1]_vars

\* parsing failed at the second argument and the process has exited with status 1
C11_Witness ==
    /\ exited /\ exitStatus = 1
    /\ boot.err.kind = "Unsupported panel type"
    /\ Len(boot.args) = 2 /\ FirstBad(boot.args) = 2

\* C13 as stated: every panel's ring has exactly windowWidth - 2 slots
C13_RingIsWindowWidthLessTwo ==
    \A p \in Panels : Cap(p) = windowWidth - 2

\* C13: every panel's ring has, from the panel's creation on, exactly
\* panelWidth - 2 = windowWidth - 2 * windowMargin - 2 slots, by the window
\* width at the time of creation, and no step changes the capacity, the
\* re-reading of the window size included.
C13_RingCapacity ==
    /\ [](\A p \in Panels : Cap(p) = boot.w0 - (windowMargin * 2) - 2)
    /\ [][\A p \in Panels : p <= Len(panels') => Len(panels'[p].ring) = Cap(p)]_vars

\* the window size was re-read and differs, the panel's ring has wrapped
C13_Witness ==
    /\ boot.stage = "running"
    /\ windowWidth # boot.w0
    /\ \E p \in Panels : Len(collected[p]) > Cap(p) /\ Cap(p) # panelWidth - 2

\* the producers started so far are those of the first arguments, in order,
\* each on a channel of its own
StartedInOrder ==
    /\ Len(prb) = Len(boot.started)
    /\ Len(boot.started) <= Len(boot.args)
    /\ \A j \in 1..Len(boot.started) : boot.started[j].typ = TypeOf(boot.args[j])
    /\ \A i, j \in 1..Len(boot.started) : i # j => boot.started[i].c # boot.started[j].c

\* C17: parsePanels validates the tokens and starts the producers one at a
\* time, in argument order.  When it fails at argument k, exactly the
\* producers of the arguments before k have been started, each on its own
\* fresh channel, and none for k or a later argument; when it succeeds there
\* is exactly one producer and one channel per panel, the panel holds the
\* channel its producer sends on, and no channel is shared.
C17_ProducersStartedInOrder ==
    /\ StartedInOrder
    /\ boot.stage = "parse" => Len(boot.started) = boot.k - 1
    /\ (Returned /\ boot.err # NoErr) =>
          Len(boot.started) = (IF WrongCount(boot.args) THEN 0 ELSE FirstBad(boot.args) - 1)
    /\ (Returned /\ boot.err = NoErr) =>
          /\ Len(boot.started) = Len(boot.args)
          /\ Len(boot.chans) = Len(panels)
          /\ Len(panels) = Len(boot.started)
          /\ \A k \in Panels : boot.chans[k] = boot.started[k].c

\* parsing failed at the second argument, after the producer of the first was started
C17_Witness ==
    /\ Returned
    /\ boot.err.kind = "Could not parse panel"
    /\ Len(boot.started) = 1 /\ Len(prb) = 1
    /\ panels = <<>>

----------------------------------------------------------------------------
(* Termination *)

\* C12 as stated: after startup the process ends only on a quit event, with status 0
C12_OnlyQuitEndsProcess ==
    exited => (exitCause = "quit" /\ exitStatus = 0)

\* C12: after startup the process ends only on a quit event, at once with
\* os.Exit(0), or when the event wait returns no event, which ends the
\* event loop and lets main return (status 0 as well).  The step that ends
\* the process changes nothing else, nothing happens after it, and no other
\* event and no step of a producer, a ticker or the render loop ends it.
C12_ExitOnlyByQuitOrNoEvent ==
    /\ [](exited => (exitCause \in {"quit", "return"} /\ exitStatus = 0))
    /\ [][/\ ~exited
          /\ exited' => UNCHANGED <<panels, prb, tickc, tpc, idx, color, frame, shown,
                                    emitted, collected, took, ticks>>]_vars

\* the event wait returned no event in the middle of a later tick
C12_Witness ==
    /\ exited /\ exitCause = "return" /\ exitStatus = 0
    /\ ticks >= 1 /\ tpc = "plot"

----------------------------------------------------------------------------
(* Staleness *)

\* C14: staleness is memoryless and exact.  The collection attempt made for
\* a panel in a tick takes the sample and draws the panel in the foreground
\* color exactly when the panel's producer is blocked offering a sample at
\* that moment, and draws it in the error color otherwise, whatever the
\* earlier ticks were; the border of every panel drawn in the tick tells
\* whether the tick took a sample for it.
C14_FreshIffReady ==
    /\ [][(tpc = "collect" /\ tpc' = "plot") =>
             /\ (color' = fg) <=> Ready(idx)
             /\ (color' = errColor) <=> ~Ready(idx)
             /\ Ready(idx) => /\ took'[idx] = 1
                              /\ collected'[idx] = Append(collected[idx], prb[idx].val)
             /\ ~Ready(idx) => /\ took'[idx] = 0
                               /\ collected'[idx] = collected[idx]]_vars
    /\ [](\A p \in 1..Len(frame) :
             frame[p].border = (IF took[p] = 1 THEN fg ELSE errColor))

\* a panel is fresh in a tick after a tick in which it was stale and a tick in
\* which it was fresh
C14_Witness ==
    /\ tpc = "plot" /\ color = fg
    /\ Len(collected[idx]) >= 2
    /\ ticks >= Len(collected[idx])

----------------------------------------------------------------------------
(* Who writes the rings *)

\* C18: a panel's ring contents and cursor are changed only by the collection
\* step of the render loop for that panel, when it receives a sample: no step
\* of a producer or a ticker, no plotRing call, no presentation and no step of
\* the event loop changes a slot or a cursor, and the collection for panel i
\* never changes the ring of another panel.
C18_OnlyCollectWritesRing ==
    [][\A p \in Panels :
          panels'[p] # panels[p] =>
             /\ tpc = "collect" /\ tpc' = "plot"
             /\ idx = p
             /\ Ready(p)
             /\ panels'[p] = Store(panels[p], prb[p].val)]_vars

\* the second panel's ring was written in a tick while the first panel's ring
\* is still empty
C18_Witness ==
    /\ NP >= 2
    /\ tpc = "plot" /\ idx = 2 /\ took[2] = 1
    /\ Visited(1) = <<>> /\ Visited(2) # <<>>

----------------------------------------------------------------------------
(* The first column and the heights *)

\* the height plotRing gives to value v by itself
OwnHeight(v, maxv) ==
    IF IsNaN(v) THEN panelHeight - 1
    ELSE IF v > 0 THEN Dec32(Trunc(v * (panelHeight - 2), maxv))
    ELSE 2

\* C15 as claimed: the first column visited has no previous column: each of
\* its segments, whatever the series index, runs from the baseline to the
\* value's own height.
C15_FirstColumnFromBaseline ==
    frame # <<>> =>
        LET first == RingDo(panels[1].ring, panels[1].cur)[1]
            lines == frame[1].lines
        IN  \A k \in 1..Len(lines) :
               lines[k].x = windowMargin =>
                  /\ lines[k].y2 = Baseline(0)
                  /\ lines[k].y1 = Baseline(0) - OwnHeight(first[lines[k].j + 1], frame[1].maxv)

\* the heights of a one-series plot: line k is the column of value k
GainHeight(k) == Baseline(0) - frame[1].lines[k].y1

\* the auto-gain statement, with lo the least height of a positive value
AutoGain(lo) ==
    frame # <<>> =>
        LET vals == RingValues(1)
            M == MaxOf(Positive(vals))
        IN  /\ Len(frame[1].lines) = Len(vals)
            /\ \A k \in 1..Len(vals) :
                  vals[k] > 0 =>
                     /\ frame[1].lines[k].y2 = Baseline(0)
                     /\ GainHeight(k) = Trunc(vals[k] * (panelHeight - 2), M) - 1
                     /\ GainHeight(k) >= lo
                     /\ GainHeight(k) < panelHeight
                     /\ vals[k] = M => GainHeight(k) = panelHeight - 3
                     /\ \A n \in 1..Len(vals) :
                           vals[n] <= vals[k] => GainHeight(n) <= GainHeight(k)

\* C16 as stated: the height of a strictly positive value is at least 0
C16_AutoGainFromZero == AutoGain(0)

\* C16: in a tick the height of a strictly positive value v is
\* trunc((panelHeight - 2) * v / M) - 1, a function of v and of the maximum M
\* over all values of the ring at that tick only: non-decreasing in v, the top
\* height panelHeight - 3 for v = M, at least -1 (one pixel below the
\* baseline, for v/M < 1/(panelHeight - 2)) and less than panelHeight; the
\* same v is drawn lower when a larger M is in the ring.
C16_AutoGain == AutoGain(-1)

\* a value drawn below the baseline next to the maximum at the top height
C16_Witness ==
    /\ frame # <<>>
    /\ Len(frame[1].lines) = Len(RingValues(1))
    /\ \E k, n \in 1..Len(frame[1].lines) :
          /\ RingValues(1)[k] > 0 /\ GainHeight(k) = -1
          /\ GainHeight(n) = panelHeight - 3

====
